---- MODULE Spec2Model ----
(***************************************************************************)
(* Model of the cover-letter service in src/main.py: the process-wide      *)
(* AppState with its JSON persistence, the HTTP handlers, the in-flight    *)
(* generation requests suspended at the model call, the parsing of the     *)
(* model's reply and the derivation of the PDF filename.                   *)
(*                                                                         *)
(* Text is a sequence of one-character strings.  Python's None is the      *)
(* distinguished sequence NoneVal, which is no text of the model.  A path  *)
(* is the sequence of its components, so "" is << >> and "/d1" is          *)
(* <<"d1">>.                                                               *)
(***************************************************************************)
EXTENDS Naturals, Sequences, FiniteSets, TLC

VARIABLES
    resume,          \* app_state.resume
    save_directory,  \* app_state.save_directory
    data_file,       \* contents of app_data.json
    proc,            \* "up" after AppState() was constructed, "crashed" when it raised
    fs_dirs,         \* the directories that exist on disk
    inflight,        \* generation requests suspended at `await agent.run(prompt)`
    resp,            \* the response to the last request handled
    validated,       \* history: the paths that were stored while they were directories on disk
    company_name, job_title, job_id, filename, fn_pc,   \* generate_filename's run
    reply_text, parsed, parse_pc                        \* the reply-parsing run

vars == <<resume, save_directory, data_file, proc, fs_dirs, inflight, resp, validated,
          company_name, job_title, job_id, filename, fn_pc,
          reply_text, parsed, parse_pc>>

serverVars == <<resume, save_directory, data_file, proc, fs_dirs, inflight, resp, validated>>
fnVars == <<company_name, job_title, job_id, filename, fn_pc>>
parseVars == <<reply_text, parsed, parse_pc>>

----------------------------------------------------------------------------
(* Bounds *)

MaxResumeLen == 1
MaxInflight == 1
MaxNameLen == 2
MaxIdLen == 1
MaxReplyLen == 4

----------------------------------------------------------------------------
(* Text *)

NoneVal == <<"<None>">>

RECURSIVE SeqsUpTo(_, _)
SeqsUpTo(S, n) ==
    IF n = 0 THEN {<<>>}
    ELSE LET shorter == SeqsUpTo(S, n - 1)
         IN  shorter \cup {Append(s, c) : s \in {t \in shorter : Len(t) = n - 1}, c \in S}

\* Python truthiness of an Optional[str]: None and "" are falsy
Truthy(v) == v # NoneVal /\ v # <<>>

\* character classes of the regular expressions: \w, \s and the hyphen
NonWordChars == {" ", "-", "!", ".", ",", "\""}
IsWord(c) == c \notin NonWordChars
IsSpace(c) == c = " "
IsHyphen(c) == c = "-"

\* str.upper() on one character
Upper(c) == IF c = "a" THEN "A" ELSE IF c = "b" THEN "B" ELSE c

RECURSIVE LStrip(_)
LStrip(s) == IF s # <<>> /\ IsSpace(Head(s)) THEN LStrip(Tail(s)) ELSE s

RECURSIVE RStrip(_)
RStrip(s) ==
    IF s # <<>> /\ IsSpace(s[Len(s)]) THEN RStrip(SubSeq(s, 1, Len(s) - 1)) ELSE s

\* str.strip()
Strip(s) == RStrip(LStrip(s))

\* re.sub(r'[^\w\s-]', '', s)
KeepWordSpaceHyphen(s) == SelectSeq(s, LAMBDA c : IsWord(c) \/ IsSpace(c) \/ IsHyphen(c))

\* re.sub(r'[^\w-]', '', s)
KeepWordHyphen(s) == SelectSeq(s, LAMBDA c : IsWord(c) \/ IsHyphen(c))

RECURSIVE DropSeparators(_)
DropSeparators(s) ==
    IF s # <<>> /\ (IsSpace(Head(s)) \/ IsHyphen(Head(s))) THEN DropSeparators(Tail(s)) ELSE s

\* re.sub(r'[-\s]+', '_', s): every maximal run of hyphens and whitespace becomes "_"
RECURSIVE CollapseSeparators(_)
CollapseSeparators(s) ==
    IF s = <<>> THEN <<>>
    ELSE IF IsSpace(Head(s)) \/ IsHyphen(Head(s))
         THEN <<"_">> \o CollapseSeparators(DropSeparators(Tail(s)))
         ELSE <<Head(s)>> \o CollapseSeparators(Tail(s))

RECURSIVE TakeWord(_)
TakeWord(s) == IF s = <<>> \/ IsSpace(Head(s)) THEN <<>> ELSE <<Head(s)>> \o TakeWord(Tail(s))

\* str.split(): the maximal runs of non-whitespace, in order
RECURSIVE SplitWords(_)
SplitWords(s) ==
    LET t == LStrip(s)
    IN  IF t = <<>> THEN <<>>
        ELSE LET w == TakeWord(t)
             IN  <<w>> \o SplitWords(SubSeq(t, Len(w) + 1, Len(t)))

\* sep.join(parts)
RECURSIVE Join(_, _)
Join(parts, sep) ==
    IF parts = <<>> THEN <<>>
    ELSE IF Len(parts) = 1 THEN parts[1]
         ELSE parts[1] \o sep \o Join(Tail(parts), sep)

----------------------------------------------------------------------------
(* generate_filename *)

DotPdf == <<".", "p", "d", "f">>

\* re.sub raises TypeError when company_name or job_title is not a str
generate_filename(company, title, id) ==
    IF company = NoneVal \/ title = NoneVal
    THEN [raised |-> TRUE, name |-> <<>>]
    ELSE LET company_clean == CollapseSeparators(Strip(KeepWordSpaceHyphen(company)))
             job_title_words == SplitWords(KeepWordSpaceHyphen(title))
             job_title_abbrev ==
                 Join([i \in 1..Len(job_title_words) |-> <<Upper(job_title_words[i][1])>>], <<>>)
             filename_parts ==
                 IF Truthy(id)
                 THEN <<company_clean, job_title_abbrev, KeepWordHyphen(id)>>
                 ELSE <<company_clean, job_title_abbrev>>
         IN  [raised |-> FALSE, name |-> Join(filename_parts, <<"_">>) \o DotPdf]

NameAlphabet == {"a", " ", "-", "!"}
Names == SeqsUpTo(NameAlphabet, MaxNameLen)
JobIds == SeqsUpTo({"7", "!"}, MaxIdLen) \cup {NoneVal}

FilenameIdle ==
    /\ company_name = <<>> /\ job_title = <<>> /\ job_id = NoneVal
    /\ filename = NoneVal /\ fn_pc = "idle"

FilenameInputs ==
    /\ company_name \in Names
    /\ job_title \in Names
    /\ job_id \in JobIds
    /\ filename = NoneVal
    /\ fn_pc = "call"

CallGenerateFilename ==
    /\ fn_pc = "call"
    /\ filename' = generate_filename(company_name, job_title, job_id).name
    /\ fn_pc' = "done"
    /\ UNCHANGED <<company_name, job_title, job_id, serverVars, parseVars>>

----------------------------------------------------------------------------
(* The reply-parsing step of _process_cover_letter *)

\* A reply is a sequence of tokens: a letter "D", a blank " ", the marker
\* "JSON_DATA:" (which cannot overlap itself), and pieces of JSON text.
Marker == "JSON_DATA:"
JsonObjectTokens == {"{full}", "{}", "{null}", "{punct}"}
JsonValueTokens == JsonObjectTokens \cup {"[]"}
JsonTokens == JsonValueTokens \cup {"{"}

\* what json.loads returns for a token that is a complete JSON object
JsonObject(tok) ==
    CASE tok = "{full}"  -> [company_name |-> <<"a">>, job_title |-> <<"b">>, job_id |-> <<"7">>]
      [] tok = "{null}"  -> [company_name |-> NoneVal, job_title |-> <<"b">>]
      [] tok = "{punct}" -> [company_name |-> <<"!">>, job_title |-> <<"b">>, job_id |-> NoneVal]
      [] OTHER           -> <<>>

\* json.loads(text): "value" with the decoded object, "nonobject" for a JSON value
\* that is no object, "error" (json.JSONDecodeError) for anything else, such as
\* an empty text, a truncated object, or a value followed by extra data
json_loads(text) ==
    IF Len(text) = 1 /\ text[1] \in JsonObjectTokens
    THEN [kind |-> "object", value |-> JsonObject(text[1])]
    ELSE IF Len(text) = 1 /\ text[1] \in JsonValueTokens
         THEN [kind |-> "nonobject", value |-> <<>>]
         ELSE [kind |-> "error", value |-> <<>>]

\* dict.get(key, default)
DictGet(d, key, default) == IF key \in DOMAIN d THEN d[key] ELSE default

RECURSIVE UpToMarker(_)
UpToMarker(s) ==
    IF s = <<>> \/ Head(s) = Marker THEN <<>> ELSE <<Head(s)>> \o UpToMarker(Tail(s))

\* str.split("JSON_DATA:")
RECURSIVE SplitOnMarker(_)
SplitOnMarker(s) ==
    LET piece == UpToMarker(s)
    IN  IF Len(piece) = Len(s) THEN <<piece>>
        ELSE <<piece>> \o SplitOnMarker(SubSeq(s, Len(piece) + 2, Len(s)))

HasMarker(s) == \E i \in 1..Len(s) : s[i] = Marker

Unknown_Company ==
    <<"U", "n", "k", "n", "o", "w", "n", "_", "C", "o", "m", "p", "a", "n", "y">>
Position == <<"P", "o", "s", "i", "t", "i", "o", "n">>

DefaultInfo(body) ==
    [raised |-> FALSE, body |-> body,
     company |-> Unknown_Company, title |-> Position, id |-> NoneVal]

\* lines 334-350: only json.JSONDecodeError is caught, so the AttributeError of
\* job_info.get on a value that is no dict leaves the function
parse_reply(response_text) ==
    IF HasMarker(response_text)
    THEN LET cover_letter_text == Strip(SplitOnMarker(response_text)[1])
             json_part == Strip(SplitOnMarker(response_text)[2])
             job_info == json_loads(json_part)
         IN  CASE job_info.kind = "object" ->
                    [raised |-> FALSE, body |-> cover_letter_text,
                     company |-> DictGet(job_info.value, "company_name", Unknown_Company),
                     title |-> DictGet(job_info.value, "job_title", Position),
                     id |-> DictGet(job_info.value, "job_id", NoneVal)]
               [] job_info.kind = "nonobject" ->
                    [raised |-> TRUE, body |-> cover_letter_text,
                     company |-> NoneVal, title |-> NoneVal, id |-> NoneVal]
               [] OTHER -> DefaultInfo(cover_letter_text)
    ELSE DefaultInfo(response_text)

ReplyTokens == {"D", " ", Marker} \cup JsonTokens
Replies == SeqsUpTo(ReplyTokens, MaxReplyLen)

ParserIdle ==
    /\ reply_text = <<>> /\ parsed = DefaultInfo(<<>>) /\ parse_pc = "idle"

ParserInputs ==
    /\ reply_text \in Replies
    /\ parsed = DefaultInfo(<<>>)
    /\ parse_pc = "call"

CallParseReply ==
    /\ parse_pc = "call"
    /\ parsed' = parse_reply(reply_text)
    /\ parse_pc' = "done"
    /\ UNCHANGED <<reply_text, serverVars, fnVars>>

----------------------------------------------------------------------------
(* Text Sanitizer and the inputs of the requests *)

Backspace == "\\b"
Surrogate == "\\udc80"

\* lines 66-72 and 304-305: control characters other than \n, \r, \t are removed
sanitize_content(v) == SelectSeq(v, LAMBDA c : c # Backspace)

\* text that the UTF-8 codec can encode: no lone surrogate
Encodable(v) == \A i \in 1..Len(v) : v[i] # Surrogate

\* resume texts a client can post as ResumeData (pydantic refuses a str that
\* holds a lone surrogate); the text extracted from a PDF may hold one
Texts == SeqsUpTo({"r"}, MaxResumeLen)
ExtractedTexts == Texts \cup {<<Surrogate>>}
Undecodable == <<"<undecodable>">>

JobDescriptions == {<<>>, <<" ">>, <<"j">>, <<Backspace>>}

\* the paths a client can post: two directories, a regular file, a missing path
Dirs == {<<"d1">>, <<"d2">>}
\* the directory that the environment removes and creates again
RemovableDirs == {<<"d2">>}
Paths == Dirs \cup {<<"f">>, <<"x">>}

\* Path(p).exists() and Path(p).is_dir()
PathExists(p, dirs) == p \in dirs \/ p = <<"f">>
PathIsDir(p, dirs) == p \in dirs

----------------------------------------------------------------------------
(* AppState persistence *)

\* json.dump of an Optional[str] and json.load of it
JsonNull == <<"n", "u", "l", "l">>
Quote == "\""
JsonDump(v) == IF v = NoneVal THEN JsonNull ELSE <<Quote>> \o v \o <<Quote>>
JsonLoadKeepingQuotes(j) == IF j = JsonNull THEN NoneVal ELSE j
JsonLoad(j) == IF j = JsonNull THEN NoneVal ELSE SubSeq(j, 2, Len(j) - 1)

FileOf(kind, r, d) == [kind |-> kind, resume |-> r, save_directory |-> d]
AbsentFile == FileOf("absent", JsonNull, JsonNull)
BrokenFile(kind) == FileOf(kind, JsonNull, JsonNull)

SaveOutcomes == {"ok", "open_fails", "write_fails"}
LoadOutcomes == {"ok", "read_fails"}

\* lines 97-110.  open(..., 'w') truncates the file; only IOError is caught, so
\* the UnicodeEncodeError of writing a lone surrogate leaves save_data.
\* exc is the exception raised inside the try block, raised says it escaped.
save_data(r, d, file, io) ==
    IF io = "open_fails"
    THEN [raised |-> FALSE, exc |-> "IOError", file |-> file]
    ELSE IF ~Encodable(r) \/ ~Encodable(d)
         THEN [raised |-> TRUE, exc |-> "UnicodeEncodeError", file |-> BrokenFile("malformed")]
         ELSE IF io = "write_fails"
              THEN [raised |-> FALSE, exc |-> "IOError", file |-> BrokenFile("malformed")]
              ELSE [raised |-> FALSE, exc |-> "",
                    file |-> FileOf("record", JsonDump(r), JsonDump(d))]

\* lines 77-95: __init__ sets the defaults and load_data overwrites them; only
\* json.JSONDecodeError and IOError are caught
load_data(file, io) ==
    LET defaults(raised, exc) ==
            [raised |-> raised, exc |-> exc, resume |-> NoneVal, save_directory |-> NoneVal]
    IN  CASE file.kind = "absent"      -> defaults(FALSE, "")
          [] io = "read_fails"         -> defaults(FALSE, "IOError")
          [] file.kind = "malformed"   -> defaults(FALSE, "JSONDecodeError")
          [] file.kind = "undecodable" -> defaults(TRUE, "UnicodeDecodeError")
          [] file.kind = "nonobject"   -> defaults(TRUE, "AttributeError")
          [] OTHER -> [raised |-> FALSE, exc |-> "",
                       resume |-> JsonLoad(file.resume),
                       save_directory |-> JsonLoad(file.save_directory)]

----------------------------------------------------------------------------
(* The service *)

NoData == <<>>
Response(op, status, detail, persist, data) ==
    [op |-> op, status |-> status, detail |-> detail, persist |-> persist, data |-> data]

ServerInit ==
    /\ resume = NoneVal
    /\ save_directory = NoneVal
    /\ data_file = AbsentFile
    /\ proc = "up"
    /\ fs_dirs = Dirs
    /\ inflight = {}
    /\ resp = Response("startup", 0, "", "", NoData)
    /\ validated = {}

Init == ServerInit /\ FilenameIdle /\ ParserIdle
InitFilename == ServerInit /\ FilenameInputs /\ ParserIdle
InitParser == ServerInit /\ FilenameIdle /\ ParserInputs

\* the process is started again: module import constructs AppState (line 112),
\* and every request that was suspended is gone with the old process
Restart(io) ==
    LET loaded == load_data(data_file, io)
    IN  /\ resume' = loaded.resume
        /\ save_directory' = loaded.save_directory
        /\ proc' = IF loaded.raised THEN "crashed" ELSE "up"
        /\ inflight' = {}
        /\ resp' = Response("startup", 0, "", loaded.exc, NoData)
        /\ UNCHANGED <<data_file, fs_dirs, validated, fnVars, parseVars>>

\* POST /resume, lines 135-147
set_resume(content, io) ==
    LET saved == save_data(content, save_directory, data_file, io)
    IN  /\ proc = "up"
        /\ resume' = content
        /\ data_file' = saved.file
        /\ resp' = IF saved.raised
                   THEN Response("resume", 500, "Internal Server Error", saved.exc, NoData)
                   ELSE Response("resume", 200, "Resume saved successfully", saved.exc,
                                 [length |-> Len(content)])
        /\ UNCHANGED <<save_directory, proc, fs_dirs, inflight, validated, fnVars, parseVars>>

\* POST /resume-file, lines 149-177.  text is what decode('utf-8') or
\* extract_text_from_pdf returns, Undecodable when it raises.
set_resume_file(ext, text, io) ==
    /\ proc = "up"
    /\ ext # ".pdf" => text # <<Surrogate>>
    /\ IF ext \notin {".txt", ".md", ".pdf"}
       THEN /\ resp' = Response("resume-file", 400,
                                "Only .txt, .md, and .pdf files are supported", "", NoData)
            /\ UNCHANGED <<resume, data_file>>
       ELSE IF text = Undecodable
            THEN /\ resp' = Response("resume-file", 500, "Error processing file", "", NoData)
                 /\ UNCHANGED <<resume, data_file>>
            ELSE LET saved == save_data(text, save_directory, data_file, io)
                 IN  /\ resume' = text
                     /\ data_file' = saved.file
                     /\ resp' = IF saved.raised
                                THEN Response("resume-file", 500, "Error processing file",
                                              saved.exc, NoData)
                                ELSE Response("resume-file", 200, "processed successfully",
                                              saved.exc, [length |-> Len(text)])
    /\ UNCHANGED <<save_directory, proc, fs_dirs, inflight, validated, fnVars, parseVars>>

\* set_save_location without its checks
AcceptAnyPath(path, dirs) == TRUE

\* the two checks of lines 192-196
DirectoryAccepted(path, dirs) == PathExists(path, dirs) /\ PathIsDir(path, dirs)

\* POST /save-location, lines 179-200
set_save_location(directory_path, io) ==
    /\ proc = "up"
    /\ IF ~DirectoryAccepted(directory_path, fs_dirs)
       THEN /\ resp' = Response("save-location", 400,
                                IF ~PathExists(directory_path, fs_dirs)
                                THEN "Directory does not exist"
                                ELSE "Path is not a directory", "", NoData)
            /\ UNCHANGED <<save_directory, data_file, validated>>
       ELSE LET saved == save_data(resume, directory_path, data_file, io)
            IN  /\ save_directory' = directory_path
                /\ data_file' = saved.file
                /\ validated' = validated \cup ({directory_path} \cap fs_dirs)
                /\ resp' = IF saved.raised
                           THEN Response("save-location", 500, "Internal Server Error",
                                         saved.exc, NoData)
                           ELSE Response("save-location", 200, "Save location set",
                                         saved.exc, [directory_path |-> directory_path])
    /\ UNCHANGED <<resume, proc, fs_dirs, inflight, fnVars, parseVars>>

\* GET /status, lines 391-402
StatusOf(r, d) ==
    [resume_set |-> r # NoneVal,
     resume_length |-> IF Truthy(r) THEN Len(r) ELSE 0,
     save_directory |-> d]

get_status ==
    /\ proc = "up"
    /\ resp' = Response("status", 200, "", "", StatusOf(resume, save_directory))
    /\ UNCHANGED <<resume, save_directory, data_file, proc, fs_dirs, inflight, validated,
                   fnVars, parseVars>>

GenerateEndpoints == {"generate-cover-letter", "generate-cover-letter-text"}

\* the save directory checked before the resume
PreconditionDirectoryFirst(ep, r, d, job_description) ==
    IF ~Truthy(d) THEN "Save location not set"
    ELSE IF ~Truthy(r) THEN "Resume not set"
    ELSE IF ep = "generate-cover-letter-text"
            /\ (job_description = <<>> \/ Strip(job_description) = <<>>)
         THEN "Job description cannot be empty"
         ELSE ""

\* the checks of lines 379-383 and of lines 292-299, in the order of the code:
\* the detail of the 400 response, "" when all of them pass
Precondition(ep, r, d, job_description) ==
    IF ~Truthy(r) THEN "Resume not set"
    ELSE IF ~Truthy(d) THEN "Save location not set"
    ELSE IF ep = "generate-cover-letter-text"
            /\ (job_description = <<>> \/ Strip(job_description) = <<>>)
         THEN "Job description cannot be empty"
         ELSE ""

\* the save directory that line 353 joins with the filename: app_state is read
\* again after the await
DirectoryAtWrite(request, d) == d

\* POST /generate-cover-letter and /generate-cover-letter-text up to the await of
\* line 331.  JobDescription.sanitize_content runs before the first handler is
\* entered.  The prompt is built from app_state.resume and handed to agent.run
\* in this step and nothing of it is read after the await; the suspended
\* request keeps its endpoint and, as history, the save directory it checked.
generate_cover_letter(ep, job_description) ==
    LET content == IF ep = "generate-cover-letter"
                   THEN sanitize_content(job_description) ELSE job_description
        failure == Precondition(ep, resume, save_directory, content)
    IN  /\ proc = "up"
        /\ IF failure # ""
           THEN /\ resp' = Response(ep, 400, failure, "", NoData)
                /\ UNCHANGED inflight
           ELSE /\ Cardinality(inflight) < MaxInflight
                /\ inflight' = inflight \cup {[ep |-> ep, save_directory |-> save_directory]}
                /\ UNCHANGED resp
        /\ UNCHANGED <<resume, save_directory, data_file, proc, fs_dirs, validated,
                       fnVars, parseVars>>

ModelFailure == <<"<error>">>
ModelReplies ==
    {<<"D">>, <<"D", " ", Marker, " ", "{full}">>, <<"D", Marker, "{">>, <<"D", Marker, "[]">>,
     <<"D", Marker, "{null}">>, <<"D", Marker, "{punct}">>, ModelFailure}

\* lines 332-364: what _process_cover_letter does once agent.run has returned;
\* create_pdf raises when the directory of filepath does not exist
process_reply(request, reply, d, dirs) ==
    LET info == parse_reply(reply)
        named == generate_filename(info.company, info.title, info.id)
        directory == DirectoryAtWrite(request, d)
        failed == [raised |-> TRUE]
    IN  IF reply = ModelFailure \/ info.raised THEN failed
        ELSE IF named.raised THEN failed
        ELSE IF ~PathIsDir(directory, dirs) THEN failed
        ELSE [raised |-> FALSE, filename |-> named.name,
              filepath |-> <<directory, named.name>>,
              company |-> info.company, job_title |-> info.title, job_id |-> info.id,
              body |-> info.body]

\* agent.run returns (or raises) and the suspended request runs to its response
model_returns(request, reply) ==
    LET result == process_reply(request, reply, save_directory, fs_dirs)
    IN  /\ proc = "up"
        /\ request \in inflight
        /\ inflight' = inflight \ {request}
        /\ resp' = IF result.raised
                   THEN Response(request.ep, 500, "Error generating cover letter", "", NoData)
                   ELSE Response(request.ep, 200,
                                 "Cover letter generated and saved successfully", "", result)
        /\ UNCHANGED <<resume, save_directory, data_file, proc, fs_dirs, validated,
                       fnVars, parseVars>>

\* the environment: a directory is removed or created again, the record is damaged
RemoveDirectory(d) ==
    /\ d \in fs_dirs
    /\ fs_dirs' = fs_dirs \ {d}
    /\ UNCHANGED <<resume, save_directory, data_file, proc, inflight, resp, validated,
                   fnVars, parseVars>>

MakeDirectory(d) ==
    /\ d \notin fs_dirs
    /\ fs_dirs' = fs_dirs \cup {d}
    /\ UNCHANGED <<resume, save_directory, data_file, proc, inflight, resp, validated,
                   fnVars, parseVars>>

DamageKinds == {"malformed", "undecodable", "nonobject"}
DamageDataFile(kind) ==
    /\ data_file.kind \notin {kind, "absent"}
    /\ data_file' = BrokenFile(kind)
    /\ UNCHANGED <<resume, save_directory, proc, fs_dirs, inflight, resp, validated,
                   fnVars, parseVars>>

Next ==
    \/ \E io \in LoadOutcomes : Restart(io)
    \/ \E content \in Texts, io \in SaveOutcomes : set_resume(content, io)
    \/ \E ext \in {".txt", ".pdf", ".doc"}, text \in ExtractedTexts \cup {Undecodable},
          io \in SaveOutcomes : set_resume_file(ext, text, io)
    \/ \E path \in Paths, io \in SaveOutcomes : set_save_location(path, io)
    \/ get_status
    \/ \E ep \in GenerateEndpoints, jd \in JobDescriptions : generate_cover_letter(ep, jd)
    \/ \E request \in inflight, reply \in ModelReplies : model_returns(request, reply)
    \/ \E d \in RemovableDirs : RemoveDirectory(d)
    \/ \E d \in RemovableDirs : MakeDirectory(d)
    \/ \E kind \in DamageKinds : DamageDataFile(kind)

Spec == Init /\ [][Next]_vars
SpecFilename == InitFilename /\ [][CallGenerateFilename]_vars
SpecParser == InitParser /\ [][CallParseReply]_vars

----------------------------------------------------------------------------
(* The claims *)

Invoked == inflight' \ inflight

\* C1: the external model is invoked (a request is suspended at agent.run) only
\* in a state whose resume is non-empty and whose save directory is set and was a
\* directory on disk when set_save_location stored it, also when it was restored
\* by load_data; and every suspended request checked such a directory.
C1_ModelInvokedOnlyWhenReady ==
    [][/\ Invoked # {} =>
            /\ Truthy(resume)
            /\ Truthy(save_directory)
            /\ save_directory \in validated
       /\ \A request \in inflight' : request.save_directory \in validated']_vars

\* C1's case: after a restart the save directory was restored by load_data and
\* the model has been invoked with it
C1_Witness ==
    /\ resp.op = "startup"
    /\ inflight # {}
    /\ \A request \in inflight : request.save_directory = save_directory

\* C2: a generation request that arrives while the resume is unset is answered
\* 400 "Resume not set", whatever the save directory and the job description; the
\* 400 "Save location not set" is given only when the resume is set; the model is
\* invoked in neither case.
C2_ResumeCheckedFirst ==
    [][\A ep \in GenerateEndpoints, jd \in JobDescriptions :
          generate_cover_letter(ep, jd) =>
              /\ ~Truthy(resume) =>
                     /\ resp' = Response(ep, 400, "Resume not set", "", NoData)
                     /\ Invoked = {}
              /\ (Truthy(resume) /\ ~Truthy(save_directory)) =>
                     /\ resp' = Response(ep, 400, "Save location not set", "", NoData)
                     /\ Invoked = {}]_vars

\* C2's case: the request was refused for the resume while the save directory
\* was unset too
C2_Witness ==
    /\ resp.op \in GenerateEndpoints
    /\ resp.detail = "Resume not set"
    /\ ~Truthy(resume)
    /\ save_directory = NoneVal

\* C3: with resume and save directory set, a generation request on either
\* endpoint whose job description is empty after trimming is answered 400 and the
\* model is not invoked.
C3_BlankJobDescriptionRefused ==
    [][\A ep \in GenerateEndpoints, jd \in JobDescriptions :
          (/\ generate_cover_letter(ep, jd)
           /\ Truthy(resume) /\ Truthy(save_directory)
           /\ Strip(jd) = <<>>) =>
              /\ resp' = Response(ep, 400, "Job description cannot be empty", "", NoData)
              /\ Invoked = {}]_vars

\* the parser of the claim: the body is the trimmed text before the first marker,
\* the metadata is parsed from everything after the first marker
AfterFirstMarker(s) == SubSeq(s, Len(UpToMarker(s)) + 2, Len(s))
ClaimedParse(reply) ==
    IF HasMarker(reply)
    THEN LET record == json_loads(Strip(AfterFirstMarker(reply)))
             body == Strip(UpToMarker(reply))
         IN  IF record.kind = "object"
             THEN [raised |-> FALSE, body |-> body,
                   company |-> DictGet(record.value, "company_name", Unknown_Company),
                   title |-> DictGet(record.value, "job_title", Position),
                   id |-> DictGet(record.value, "job_id", NoneVal)]
             ELSE DefaultInfo(body)
    ELSE DefaultInfo(reply)

\* C4: for every reply on which the parsing step of _process_cover_letter yields
\* a result, the result is the one of the claim's parser: body before the first
\* marker, metadata from everything after the first marker, defaults without a
\* marker; replies with several markers included.
C4_ParseAgreesWithClaimedParser ==
    (parse_pc = "done" /\ ~parsed.raised) => parsed = ClaimedParse(reply_text)

UnusableReplies == {<<"D", Marker, "{">>, <<"D", Marker, "[]">>, <<"D", Marker, "{null}">>}

\* C5: when the text after the marker yields no usable record (malformed JSON, a
\* JSON value that is no object, an object with a null company_name), the request
\* still succeeds, with the default metadata and the body before the marker.
C5_UnusableMetadataFallsBack ==
    [][\A request \in inflight, reply \in UnusableReplies :
          (/\ model_returns(request, reply)
           /\ PathIsDir(save_directory, fs_dirs)) =>
              /\ resp'.status = 200
              /\ resp'.data.company = Unknown_Company
              /\ resp'.data.job_title = Position
              /\ resp'.data.job_id = NoneVal
              /\ resp'.data.body = <<"D">>]_vars

\* the filename of the claim: only the non-empty parts are joined
ClaimedFilename(company, title, id) ==
    LET slug == CollapseSeparators(Strip(KeepWordSpaceHyphen(company)))
        words == SplitWords(KeepWordSpaceHyphen(title))
        acronym == Join([i \in 1..Len(words) |-> <<Upper(words[i][1])>>], <<>>)
        parts == <<slug, acronym>> \o (IF id = NoneVal THEN <<>> ELSE <<KeepWordHyphen(id)>>)
    IN  Join(SelectSeq(parts, LAMBDA part : part # <<>>), <<"_">>) \o DotPdf

\* C6: generate_filename returns the company slug, the title acronym and the
\* job-id slug, only the non-empty ones, joined by single underscores, with
\* ".pdf" appended: no leading, trailing or doubled underscore from an empty part.
C6_FilenameJoinsNonEmptyParts ==
    fn_pc = "done" => filename = ClaimedFilename(company_name, job_title, job_id)

\* set-resume was the last request handled and it answered with success
AfterSetResume == resp.op = "resume" /\ resp.status = 200

RoundTrip ==
    /\ proc' = "up"
    /\ StatusOf(resume', save_directory') =
           [resume_set |-> TRUE, resume_length |-> resp.data.length,
            save_directory |-> save_directory]

C8_PersistenceFailuresSwallowed ==
    /\ (resp.op \in {"resume", "resume-file", "save-location"} /\ resp.persist # "")
           => resp.status = 200
    /\ (resp.op = "startup" /\ resp.persist # "")
           => (proc = "up" /\ resume = NoneVal /\ save_directory = NoneVal)

\* C9: get-status reports resume_set exactly when a generation request in the
\* same state passes the resume precondition.
C9_StatusAgreesWithPrecondition ==
    proc = "up" =>
        \A ep \in GenerateEndpoints, jd \in JobDescriptions :
            StatusOf(resume, save_directory).resume_set
                <=> (Precondition(ep, resume, save_directory, jd) # "Resume not set")

\* C10: the PDF of a generation request is written to, and its filepath names,
\* the save directory that ApplicationState held when the request's
\* preconditions were checked, whatever set-save-directory requests completed
\* while the model call was in flight.
C10_FilepathInCheckedDirectory ==
    [][\A request \in inflight, reply \in ModelReplies :
          (model_returns(request, reply) /\ resp'.status = 200) =>
              resp'.data.filepath[1] = request.save_directory]_vars

====
